---------------------------- MODULE Spec2Model ----------------------------
(***************************************************************************)
(* Construction of a ConvNet (vulcanai2/models/cnn.py): validation of the  *)
(* raw configuration (ConvNetConfig), reconciliation of the shapes of the  *)
(* upstream networks, pipeline build, flattened-size probe and attachment  *)
(* of the classification head.                                             *)
(*                                                                         *)
(* Tensors are modelled by their shapes (sequences of axis lengths); a     *)
(* one-dimensional tensor also carries its elements.  Python exceptions    *)
(* are modelled by the name of their class.                                *)
(***************************************************************************)
EXTENDS Integers, Sequences, FiniteSets, TLC

(***************************************************************************)
(* Bounds of the model.                                                    *)
(***************************************************************************)
MaxNets == 2
MaxRank == 2
MaxFlat == 3
MaxUnits == 2
MaxRuns == 2

\* Axis lengths and channel counts of the upstream outputs, kernel widths and
\* the class count of the runs explored.
SpatialSizes == {1, 2}
ChannelCounts == {1, 2}
KernelWidths == {1, 2}
ClassCounts == {0, 3}

(***************************************************************************)
(* Arithmetic and sequence helpers (math.ceil, math.floor, numpy.prod).    *)
(***************************************************************************)
\* math.ceil(a / b) for b > 0
Ceil(a, b) == -((-a) \div b)

\* math.floor(a / b) for b > 0
Floor(a, b) == a \div b

RECURSIVE Prod(_)
Prod(s) == IF s = << >> THEN 1 ELSE Head(s) * Prod(Tail(s))

RECURSIVE Sum(_)
Sum(s) == IF s = << >> THEN 0 ELSE Head(s) + Sum(Tail(s))

SetMax(S) == CHOOSE m \in S : \A x \in S : x <= m

Repeat(v, n) == [i \in 1..n |-> v]

\* All sequences over S of length lo..hi
SeqsOf(S, lo, hi) == UNION {[1..n -> S] : n \in lo..hi}

(***************************************************************************)
(* ConvNetConfig: validation of the raw configuration.                     *)
(*                                                                         *)
(* A raw unit is a dict: keys is the set of keys present, and each field   *)
(* holds the value under its key (meaningful only when the key is          *)
(* present).  A kernel_size value is tagged with its Python type: an int,  *)
(* a tuple, a list (any other iterable) or any other, non-iterable value.  *)
(***************************************************************************)
NoKernel == [kind |-> "absent", elems |-> << >>]

\* Arguments of ConvUnit without a default, less self and conv_dim, in the
\* order of the signature.
RequiredArgs == <<"in_channels", "out_channels", "kernel_size">>

\* The kernel_size normalisation of _clean_unit: err is the exception class
\* raised ("None" when none is).
CleanKernelMutKeepList(ks) ==
    [err |-> "None",
     value |-> IF ks.kind = "int" THEN [kind |-> "tuple", elems |-> ks.elems]
               ELSE ks]

CleanKernel(ks) ==
    IF ks.kind = "tuple" THEN [err |-> "None", value |-> ks]
    ELSE LET wrapped == IF ks.kind = "int"
                        THEN [kind |-> "tuple", elems |-> ks.elems]
                        ELSE ks
         IN  IF wrapped.kind \in {"tuple", "list"}
             THEN [err |-> "None",
                   value |-> [kind |-> "tuple", elems |-> wrapped.elems]]
             ELSE [err |-> "TypeError", value |-> ks]

\* The first required argument missing from the unit, "" when none is.
RECURSIVE FirstMissing(_, _)
FirstMissing(args, unit) ==
    IF args = << >> THEN ""
    ELSE IF Head(args) \notin unit.keys THEN Head(args)
         ELSE FirstMissing(Tail(args), unit)

CleanUnitMutNoCheck(raw_unit) ==
    IF "kernel_size" \notin raw_unit.keys
    THEN [err |-> "KeyError", arg |-> "kernel_size", unit |-> raw_unit]
    ELSE LET k == CleanKernel(raw_unit.kernel_size)
         IN  IF k.err # "None"
             THEN [err |-> k.err, arg |-> "", unit |-> raw_unit]
             ELSE [err |-> "None", arg |-> "",
                   unit |-> [raw_unit EXCEPT
                                !.kernel_size = k.value,
                                !.conv_dim = Len(k.value.elems),
                                !.keys = @ \cup {"conv_dim"}]]

\* _clean_unit: [err, arg, unit]; arg is the field the error names.
CleanUnit(raw_unit) ==
    LET missing == FirstMissing(RequiredArgs, raw_unit)
    IN  IF missing # ""
        THEN [err |-> "ValueError", arg |-> missing, unit |-> raw_unit]
        ELSE LET k == CleanKernel(raw_unit.kernel_size)
             IN  IF k.err # "None"
                 THEN [err |-> k.err, arg |-> "", unit |-> raw_unit]
                 ELSE [err |-> "None", arg |-> "",
                       unit |-> [raw_unit EXCEPT
                                    !.kernel_size = k.value,
                                    !.conv_dim = Len(k.value.elems),
                                    !.keys = @ \cup {"conv_dim"}]]

\* The loop over raw_config['conv_units']: the units cleaned so far, until
\* the first unit that raises.
RECURSIVE CleanUnits(_, _)
CleanUnits(raw_units, done) ==
    IF raw_units = << >> THEN [err |-> "None", arg |-> "", units |-> done]
    ELSE LET c == CleanUnit(Head(raw_units))
         IN  IF c.err # "None"
             THEN [err |-> c.err, arg |-> c.arg, units |-> done]
             ELSE CleanUnits(Tail(raw_units), Append(done, c.unit))

ConvNetConfigMutValueError(raw) ==
    IF ~raw.has_conv_units
    THEN [err |-> "ValueError", arg |-> "conv_units", units |-> << >>]
    ELSE CleanUnits(raw.conv_units, << >>)

\* ConvNetConfig.__init__: [err, arg, units].
ConvNetConfig(raw) ==
    IF ~raw.has_conv_units
    THEN [err |-> "KeyError", arg |-> "conv_units", units |-> << >>]
    ELSE CleanUnits(raw.conv_units, << >>)

(***************************************************************************)
(* Shape reconciliation (ConvNet._create_network, multi-input branch).     *)
(*                                                                         *)
(* An upstream network is [kind, out_dim]: kind is its class ("ConvNet" or *)
(* "DenseNet"), out_dim its output shape, [channels, *spatial] for a       *)
(* ConvNet and [features] for a DenseNet.                                  *)
(***************************************************************************)
\* spatial_inputs: out_dim[1:] of every upstream that is a ConvNet.
RECURSIVE SpatialInputs(_)
SpatialInputs(nets) ==
    IF nets = << >> THEN << >>
    ELSE IF Head(nets).kind = "ConvNet"
         THEN <<Tail(Head(nets).out_dim)>> \o SpatialInputs(Tail(nets))
         ELSE SpatialInputs(Tail(nets))

\* while len(in_spatial_dim) < max_spatial_dim: in_spatial_dim.append(0)
FillZerosMutLeading(shape, n) ==
    IF Len(shape) < n THEN Repeat(0, n - Len(shape)) \o shape ELSE shape

FillZeros(shape, n) ==
    IF Len(shape) < n THEN shape \o Repeat(0, n - Len(shape)) ELSE shape

\* np.array([1, *np.array(spatial_inputs).transpose().max(axis=1)])
MaxConvTensorSize(spatial_inputs) ==
    LET max_spatial_dim ==
            SetMax({Len(spatial_inputs[i]) : i \in 1..Len(spatial_inputs)})
        filled == [i \in 1..Len(spatial_inputs) |->
                      FillZeros(spatial_inputs[i], max_spatial_dim)]
    IN  <<1>> \o [d \in 1..max_spatial_dim |->
                     SetMax({filled[i][d] : i \in 1..Len(filled)})]

\* utils.cast_spatial_dim_as: singleton axes inserted right after the channel
\* axis until the rank is that of cast_shape ([12, 4] as [16, 8, 8] is
\* [12, 1, 4]).
CastSpatialDimAs(shape, cast_shape) ==
    <<Head(shape)>> \o Repeat(1, Len(cast_shape) - Len(shape)) \o Tail(shape)

\* torch.nn.functional.pad on a shape: padding holds (low, high) pairs from
\* the last axis backward; a negative entry crops.
FPad(shape, padding) ==
    LET n == Len(shape)
        new == [a \in 1..n |->
                   LET j == n + 1 - a
                   IN  IF 2 * j <= Len(padding)
                       THEN shape[a] + padding[2 * j - 1] + padding[2 * j]
                       ELSE shape[a]]
    IN  IF Len(padding) > 2 * n \/ \E a \in 1..n : new[a] < 0
        THEN [err |-> "RuntimeError", shape |-> shape]
        ELSE [err |-> "None", shape |-> new]

\* torch.nn.functional.pad on the elements of a one-dimensional tensor.
FPadData(data, low, high) ==
    LET cropped == SubSeq(data, 1 + (IF low < 0 THEN -low ELSE 0),
                          Len(data) - (IF high < 0 THEN -high ELSE 0))
    IN  Repeat(0, IF low > 0 THEN low ELSE 0) \o cropped
            \o Repeat(0, IF high > 0 THEN high ELSE 0)

\* padding_needed of _pad_as, for the deficits dim_size_diff
RECURSIVE PaddingNeeded(_)
PaddingNeeded(diff) ==
    IF diff = << >> THEN << >>
    ELSE LET dim == diff[Len(diff)]
         IN  <<Ceil(dim, 2), Floor(dim, 2)>>
                 \o PaddingNeeded(SubSeq(diff, 1, Len(diff) - 1))

\* _pad_as: [err, shape, pad, data] of the padded tensor
PadAsMutFloorBoth(shape, cast_shape) ==
    LET t == IF Len(Tail(shape)) < Len(Tail(cast_shape))
             THEN CastSpatialDimAs(shape, cast_shape) ELSE shape
        diff == [i \in 1..(Len(t) - 1) |-> cast_shape[i + 1] - t[i + 1]]
        pad == [i \in 1..(2 * Len(diff)) |->
                   Floor(diff[Len(diff) - ((i - 1) \div 2)], 2)]
        r == FPad(t, pad)
    IN  [err |-> r.err, shape |-> r.shape, pad |-> pad, data |-> << >>]

PadAs(shape, cast_shape) ==
    LET t == IF Len(Tail(shape)) < Len(Tail(cast_shape))
             THEN CastSpatialDimAs(shape, cast_shape) ELSE shape
        dim_size_diff ==
            [i \in 1..(Len(t) - 1) |-> cast_shape[i + 1] - t[i + 1]]
        padding_needed == PaddingNeeded(dim_size_diff)
        r == FPad(t, padding_needed)
    IN  [err |-> r.err, shape |-> r.shape, pad |-> padding_needed,
         data |-> << >>]

\* _cast_linear_to_conv_shape on a tensor of n ones: [err, shape, pad, data]
CastLinearMutFloorChannels(n, cast_shape) ==
    LET sequence_length == Prod(Tail(cast_shape))
        n_channels == IF n < sequence_length THEN 1
                      ELSE Floor(n, sequence_length)
        how_much_pad == (sequence_length * n_channels) - n
        low == Ceil(how_much_pad, 2)
        high == Floor(how_much_pad, 2)
        data == FPadData(Repeat(1, n), low, high)
    IN  [err |-> "None",
         shape |-> <<Len(data) \div sequence_length>> \o Tail(cast_shape),
         pad |-> <<low, high>>, data |-> data]

CastLinearToConvShape(n, cast_shape) ==
    LET sequence_length == Prod(Tail(cast_shape))
        n_channels == Ceil(n, sequence_length)
        how_much_pad == (sequence_length * n_channels) - n
        low == Ceil(how_much_pad, 2)
        high == Floor(how_much_pad, 2)
        data == FPadData(Repeat(1, n), low, high)
    IN  \* tensor.view(-1, *cast_shape[1:])
        IF Len(data) % sequence_length # 0
        THEN [err |-> "RuntimeError", shape |-> <<n>>,
              pad |-> <<low, high>>, data |-> data]
        ELSE [err |-> "None",
              shape |-> <<Len(data) \div sequence_length>> \o Tail(cast_shape),
              pad |-> <<low, high>>, data |-> data]

\* The loop over in_tensors: each tensor cast or padded to cast_shape.
ReshapeTensor(shape, cast_shape) ==
    IF Len(shape) = 1 THEN CastLinearToConvShape(shape[1], cast_shape)
    ELSE PadAs(shape, cast_shape)

\* torch.cat(tensors, dim=0) on shapes
TorchCat(shapes) ==
    IF \E i \in 1..Len(shapes) :
           \/ Len(shapes[i]) # Len(shapes[1])
           \/ Tail(shapes[i]) # Tail(shapes[1])
    THEN [err |-> "RuntimeError", shape |-> << >>]
    ELSE [err |-> "None",
          shape |-> <<Sum([i \in 1..Len(shapes) |-> shapes[i][1]])>>
                        \o Tail(shapes[1])]

\* The multi-input branch of _create_network:
\* [err, max_conv_tensor_size, reshaped_tensors, unified]
Reconcile(shapes, nets) ==
    LET spatial_inputs == SpatialInputs(nets)
        none == [err |-> "None", max_conv_tensor_size |-> << >>,
                 reshaped_tensors |-> << >>, unified |-> << >>]
    IN  IF spatial_inputs = << >>
        THEN \* max() of an empty sequence
             [none EXCEPT !.err = "ValueError"]
        ELSE LET cast_shape == MaxConvTensorSize(spatial_inputs)
                 reshaped == [i \in 1..Len(shapes) |->
                                 ReshapeTensor(shapes[i], cast_shape)]
                 failed == {i \in 1..Len(shapes) : reshaped[i].err # "None"}
                 cat == TorchCat([i \in 1..Len(shapes) |-> reshaped[i].shape])
             IN  IF failed # {}
                 THEN [none EXCEPT
                          !.err = reshaped[CHOOSE i \in failed :
                                      \A j \in failed : i <= j].err,
                          !.max_conv_tensor_size = cast_shape]
                 ELSE IF cat.err # "None"
                      THEN [none EXCEPT !.err = cat.err,
                                        !.max_conv_tensor_size = cast_shape,
                                        !.reshaped_tensors = reshaped]
                      ELSE [err |-> "None",
                            max_conv_tensor_size |-> cast_shape,
                            reshaped_tensors |-> reshaped,
                            unified |-> cat.shape]

\* out_dim of a ConvNet upstream after the zero-fill loop ran on its entry
\* of spatial_inputs up to length n: the entry is list(net.out_dim[1:]), a
\* new list, so the appends leave out_dim as it was.
OutDimAfterFillMutAlias(out_dim, n) ==
    <<Head(out_dim)>> \o FillZeros(Tail(out_dim), n)

OutDimAfterFill(out_dim, n) == out_dim

\* The upstream networks after the multi-input branch ran on them.
NetsAfterReconcile(nets) ==
    LET spatial_inputs == SpatialInputs(nets)
    IN  IF spatial_inputs = << >> THEN nets
        ELSE LET max_spatial_dim ==
                     SetMax({Len(spatial_inputs[i]) :
                                 i \in 1..Len(spatial_inputs)})
             IN  [i \in 1..Len(nets) |->
                     IF nets[i].kind = "ConvNet"
                     THEN [nets[i] EXCEPT
                              !.out_dim = OutDimAfterFill(@, max_spatial_dim)]
                     ELSE nets[i]]

(***************************************************************************)
(* Pipeline build, flattened-size probe, classification head.              *)
(*                                                                         *)
(* in_dim and _in_dim are [flat, shapes]: with flat the value is the bare  *)
(* shape shapes[1] (a sequence of ints), otherwise the list shapes of      *)
(* shapes.                                                                 *)
(***************************************************************************)
\* len(self.in_dim)
LenDim(d) == IF d.flat THEN Len(d.shapes[1]) ELSE Len(d.shapes)

\* _build_conv_network: [err, units, network].  self._in_dim[0][0] is
\* evaluated first, then conv_hid_layers[0] is subscripted.
BuildMutRegistersOnError(units, dim, activation) ==
    [err |-> IF dim.flat THEN "TypeError"
             ELSE IF units = << >> THEN "IndexError" ELSE "None",
     units |-> units, network |-> units]

BuildMutAllInChannels(units, dim, activation) ==
    IF dim.flat
    THEN [err |-> "TypeError", units |-> units, network |-> << >>]
    ELSE IF units = << >>
         THEN [err |-> "IndexError", units |-> units, network |-> << >>]
         ELSE LET conv_hid_layers ==
                      [i \in 1..Len(units) |->
                          [units[i] EXCEPT
                              !.in_channels = dim.shapes[1][1],
                              !.activation = activation,
                              !.keys = @ \cup {"in_channels", "activation"}]]
              IN  [err |-> "None", units |-> conv_hid_layers,
                   network |-> conv_hid_layers]

BuildConvNetwork(units, dim, activation) ==
    IF dim.flat
    THEN \* an int is not subscriptable
         [err |-> "TypeError", units |-> units, network |-> << >>]
    ELSE IF units = << >>
         THEN [err |-> "IndexError", units |-> units, network |-> << >>]
         ELSE LET conv_hid_layers ==
                      [i \in 1..Len(units) |->
                          [units[i] EXCEPT
                              !.in_channels =
                                  IF i = 1 THEN dim.shapes[1][1] ELSE @,
                              !.activation = activation,
                              !.keys = @ \cup {"in_channels", "activation"}]]
              IN  [err |-> "None", units |-> conv_hid_layers,
                   network |-> conv_hid_layers]

\* The forward pass of one ConvUnit on a batched shape x = [1, C, *spatial],
\* with the default stride 1, padding 0 and no pooling: [err, shape].
ConvUnitForward(stage, x) ==
    IF \/ Len(x) # stage.conv_dim + 2
       \/ x[2] # stage.in_channels
       \/ \E d \in 1..stage.conv_dim : x[d + 2] < stage.kernel_size.elems[d]
    THEN [err |-> "RuntimeError", shape |-> x]
    ELSE [err |-> "None",
          shape |-> <<x[1], stage.out_channels>> \o
                        [d \in 1..stage.conv_dim |->
                            x[d + 2] - stage.kernel_size.elems[d] + 1]]

RECURSIVE Forward(_, _)
Forward(network, x) ==
    IF network = << >> THEN [err |-> "None", shape |-> x]
    ELSE LET r == ConvUnitForward(Head(network), x)
         IN  IF r.err # "None" THEN r ELSE Forward(Tail(network), r.shape)

\* get_flattened_size: [err, size]
GetFlattenedSize(network, dim) ==
    IF dim.flat
    THEN [err |-> "TypeError", size |-> 0]
    ELSE LET r == Forward(network, <<1>> \o dim.shapes[1])
         IN  IF r.err # "None" THEN [err |-> r.err, size |-> 0]
             ELSE [err |-> "None", size |-> Prod(r.shape)]

\* _create_classification_layer: the DenseUnit stored as network_tail
CreateClassificationLayer(dim, out_dim, pred_activation) ==
    [in_features |-> dim, out_features |-> out_dim,
     activation |-> pred_activation]

\* The condition of the multi-input branch of _create_network
MultiInputMutEither(dim, nets) == LenDim(dim) > 1 \/ Len(nets) > 1

MultiInput(dim, nets) == LenDim(dim) > 1 /\ Len(nets) > 1

\* The step that follows a completed step of the construction.
StepAfterMutProbeFirst(step, multi, classes) ==
    CASE step = "validate" -> "create"
      [] step = "create" -> IF multi THEN "reconcile" ELSE "build"
      [] step = "reconcile" -> "build"
      [] step = "build" -> IF classes # 0 THEN "head" ELSE "done"
      [] step = "head" -> "probe"
      [] step = "probe" -> "done"
      [] OTHER -> "done"

StepAfter(step, multi, classes) ==
    CASE step = "validate" -> "create"
      [] step = "create" -> IF multi THEN "reconcile" ELSE "build"
      [] step = "reconcile" -> "build"
      [] step = "build" -> "probe"
      [] step = "probe" -> IF classes # 0 THEN "head" ELSE "done"
      [] step = "head" -> "done"
      [] OTHER -> "done"

(***************************************************************************)
(* The inputs of a construction.                                           *)
(***************************************************************************)
Activation == "ReLU"
PredActivation == "None"
NoError == [class |-> "None", arg |-> ""]
NoTail == [in_features |-> 0, out_features |-> 0, activation |-> "None"]

KernelValues ==
    {[kind |-> "int", elems |-> <<w>>] : w \in KernelWidths}
    \cup {[kind |-> "tuple", elems |-> Repeat(w, r)] :
              w \in KernelWidths, r \in 1..MaxRank}
    \cup {[kind |-> "list", elems |-> Repeat(1, r)] : r \in 1..MaxRank}
    \cup {[kind |-> "other", elems |-> << >>]}

CompleteUnits ==
    {[keys |-> {"in_channels", "out_channels", "kernel_size"},
      in_channels |-> c, out_channels |-> 2, kernel_size |-> k,
      conv_dim |-> 0, activation |-> "None"] :
         c \in ChannelCounts, k \in KernelValues}

IncompleteUnits ==
    {[keys |-> {"in_channels", "out_channels", "kernel_size"} \ missing,
      in_channels |-> IF "in_channels" \in missing THEN 0 ELSE 1,
      out_channels |-> IF "out_channels" \in missing THEN 0 ELSE 2,
      kernel_size |-> IF "kernel_size" \in missing THEN NoKernel
                      ELSE [kind |-> "tuple", elems |-> <<1>>],
      conv_dim |-> 0, activation |-> "None"] :
         missing \in {{"in_channels"}, {"out_channels"}, {"kernel_size"},
                      {"in_channels", "kernel_size"}}}

\* A complete unit that brings an activation of its own
ActivatedUnits ==
    {[keys |-> {"in_channels", "out_channels", "kernel_size", "activation"},
      in_channels |-> 2, out_channels |-> 2,
      kernel_size |-> [kind |-> "tuple", elems |-> <<1>>],
      conv_dim |-> 0, activation |-> "Tanh"]}

RawUnits == CompleteUnits \cup IncompleteUnits \cup ActivatedUnits

RawConfigs ==
    {[has_conv_units |-> FALSE, conv_units |-> << >>]}
    \cup {[has_conv_units |-> TRUE, conv_units |-> us] :
              us \in SeqsOf(RawUnits, 0, MaxUnits)}

\* One complete unit with a kernel of width 1, of each rank
BasicConfigs ==
    {[has_conv_units |-> TRUE,
      conv_units |-> <<[keys |-> {"in_channels", "out_channels",
                                  "kernel_size"},
                        in_channels |-> 1, out_channels |-> 2,
                        kernel_size |-> [kind |-> "tuple",
                                         elems |-> Repeat(1, r)],
                        conv_dim |-> 0, activation |-> "None"]>>] :
         r \in 1..MaxRank}

ConvShapes ==
    {<<c>> \o sp : c \in ChannelCounts, sp \in SeqsOf(SpatialSizes, 1, MaxRank)}

Upstreams ==
    {[kind |-> "ConvNet", out_dim |-> s] : s \in ConvShapes}
    \cup {[kind |-> "DenseNet", out_dim |-> <<n>>] : n \in 1..MaxFlat}

\* in_dim of a network with upstream networks: the list of their out_dim
InDimOf(nets) ==
    [flat |-> FALSE, shapes |-> [i \in 1..Len(nets) |-> nets[i].out_dim]]

\* in_dim given by the caller of a network without upstream networks: a
\* bare shape, or a list of one shape
UserInDims ==
    {[flat |-> f, shapes |-> <<s>>] : f \in BOOLEAN, s \in ConvShapes}

NetInputs ==
    {[input_networks |-> nets, in_dim |-> InDimOf(nets)] :
         nets \in SeqsOf(Upstreams, 1, MaxNets)}
    \cup {[input_networks |-> << >>, in_dim |-> u] : u \in UserInDims}

BasicNetInputs ==
    {[input_networks |-> << >>,
      in_dim |-> [flat |-> FALSE, shapes |-> <<(<<1, 2>>)>>]],
     [input_networks |-> << >>,
      in_dim |-> [flat |-> FALSE, shapes |-> <<(<<2, 2, 2>>)>>]],
     [input_networks |-> << >>,
      in_dim |-> [flat |-> TRUE, shapes |-> <<(<<1, 2, 2>>)>>]],
     [input_networks |-> <<[kind |-> "ConvNet", out_dim |-> <<2, 2>>]>>,
      in_dim |-> [flat |-> FALSE, shapes |-> <<(<<2, 2>>)>>]],
     [input_networks |-> <<[kind |-> "ConvNet", out_dim |-> <<1, 2, 2>>],
                           [kind |-> "DenseNet", out_dim |-> <<3>>]>>,
      in_dim |-> [flat |-> FALSE, shapes |-> <<(<<1, 2, 2>>), <<3>>>>]]}

\* The constructions explored: every raw config with a few upstream sets,
\* and every upstream set with a few valid configs.
Inputs ==
    (RawConfigs \X BasicNetInputs) \cup (BasicConfigs \X NetInputs)

(***************************************************************************)
(* The construction ConvNet(name, in_dim, config, input_networks,          *)
(* num_classes) as a state machine: pc is the step about to run.           *)
(***************************************************************************)
VARIABLES raw_config, input_networks, in_dim, num_classes, pc, units,
          _in_dim, max_conv_tensor_size, reshaped_tensors, network,
          conv_flat_dim, network_tail, out_dim, attrs, error, steps

vars == <<raw_config, input_networks, in_dim, num_classes, pc, units,
          _in_dim, max_conv_tensor_size, reshaped_tensors, network,
          conv_flat_dim, network_tail, out_dim, attrs, error, steps>>

inputs == <<raw_config, input_networks, in_dim, num_classes>>

Init ==
    /\ \E i \in Inputs, c \in ClassCounts :
          /\ raw_config = i[1]
          /\ input_networks = i[2].input_networks
          /\ in_dim = i[2].in_dim
          /\ num_classes = c
    /\ pc = "validate"
    /\ units = << >>
    /\ _in_dim = [flat |-> FALSE, shapes |-> << >>]
    /\ max_conv_tensor_size = << >>
    /\ reshaped_tensors = << >>
    /\ network = << >>
    /\ conv_flat_dim = 0
    /\ network_tail = NoTail
    /\ out_dim = 0
    /\ attrs = {}
    /\ error = NoError
    /\ steps = << >>

\* An exception leaves __init__: the construction is over.
Raise(class, arg) ==
    /\ pc' = "failed"
    /\ error' = [class |-> class, arg |-> arg]

Advance(step) ==
    /\ pc' = StepAfter(step, MultiInput(in_dim, input_networks), num_classes)
    /\ error' = error

\* ConvNetConfig(config), evaluated as an argument of BaseNetwork.__init__
Validate ==
    /\ pc = "validate"
    /\ steps' = Append(steps, "validate")
    /\ LET r == ConvNetConfig(raw_config)
       IN  /\ units' = r.units
           /\ IF r.err # "None" THEN Raise(r.err, r.arg)
              ELSE Advance("validate")
    /\ UNCHANGED <<inputs, _in_dim, max_conv_tensor_size, reshaped_tensors,
                   network, conv_flat_dim, network_tail, out_dim, attrs>>

\* BaseNetwork.__init__ calls _create_network: self._in_dim = self.in_dim
CreateNetwork ==
    /\ pc = "create"
    /\ steps' = Append(steps, "create")
    /\ _in_dim' = in_dim
    /\ attrs' = attrs \cup {"_in_dim"}
    /\ Advance("create")
    /\ UNCHANGED <<inputs, units, max_conv_tensor_size, reshaped_tensors,
                   network, conv_flat_dim, network_tail, out_dim>>

\* The multi-input branch of _create_network
ReconcileShapes ==
    /\ pc = "reconcile"
    /\ steps' = Append(steps, "reconcile")
    /\ LET r == Reconcile(in_dim.shapes, input_networks)
       IN  /\ max_conv_tensor_size' = r.max_conv_tensor_size
           /\ reshaped_tensors' = r.reshaped_tensors
           /\ IF r.err # "None"
              THEN /\ Raise(r.err, "")
                   /\ _in_dim' = _in_dim
              ELSE /\ Advance("reconcile")
                   /\ _in_dim' = [flat |-> TRUE, shapes |-> <<r.unified>>]
    /\ input_networks' = NetsAfterReconcile(input_networks)
    /\ UNCHANGED <<raw_config, in_dim, num_classes, units, network,
                   conv_flat_dim, network_tail, out_dim, attrs>>

\* self.network = self._build_conv_network(conv_hid_layers, activation)
Build ==
    /\ pc = "build"
    /\ steps' = Append(steps, "build")
    /\ LET r == BuildConvNetwork(units, _in_dim, Activation)
       IN  /\ units' = r.units
           /\ network' = r.network
           /\ IF r.err # "None"
              THEN /\ Raise(r.err, "")
                   /\ attrs' = attrs
              ELSE /\ Advance("build")
                   /\ attrs' = attrs \cup {"network"}
    /\ UNCHANGED <<inputs, _in_dim, max_conv_tensor_size, reshaped_tensors,
                   conv_flat_dim, network_tail, out_dim>>

\* self.conv_flat_dim = self.get_flattened_size(self.network)
Probe ==
    /\ pc = "probe"
    /\ steps' = Append(steps, "probe")
    /\ LET r == GetFlattenedSize(network, _in_dim)
       IN  /\ conv_flat_dim' = r.size
           /\ IF r.err # "None"
              THEN /\ Raise(r.err, "")
                   /\ attrs' = attrs
              ELSE /\ Advance("probe")
                   /\ attrs' = attrs \cup {"conv_flat_dim"}
    /\ UNCHANGED <<inputs, units, _in_dim, max_conv_tensor_size,
                   reshaped_tensors, network, network_tail, out_dim>>

\* if self._num_classes: out_dim and the classification layer
AttachHead ==
    /\ pc = "head"
    /\ steps' = Append(steps, "head")
    /\ out_dim' = num_classes
    /\ network_tail' =
           CreateClassificationLayer(conv_flat_dim, num_classes, PredActivation)
    /\ attrs' = attrs \cup {"out_dim", "network_tail"}
    /\ Advance("head")
    /\ UNCHANGED <<inputs, units, _in_dim, max_conv_tensor_size,
                   reshaped_tensors, network, conv_flat_dim>>

Next ==
    \/ Validate
    \/ CreateNetwork
    \/ ReconcileShapes
    \/ Build
    \/ Probe
    \/ AttachHead

Spec == Init /\ [][Next]_vars

(***************************************************************************)
(* The multi-input branch of _create_network run again and again on the    *)
(* same upstream networks, once by each ConvNet built on them.             *)
(***************************************************************************)
InitReconcile ==
    /\ raw_config \in BasicConfigs
    /\ input_networks \in SeqsOf(Upstreams, 2, MaxNets)
    /\ in_dim = InDimOf(input_networks)
    /\ num_classes = 0
    /\ pc = "reconcile"
    /\ units = << >>
    /\ _in_dim = in_dim
    /\ max_conv_tensor_size = << >>
    /\ reshaped_tensors = << >>
    /\ network = << >>
    /\ conv_flat_dim = 0
    /\ network_tail = NoTail
    /\ out_dim = 0
    /\ attrs = {"_in_dim"}
    /\ error = NoError
    /\ steps = << >>

ReconcileRun ==
    /\ pc = "reconcile"
    /\ Len(steps) < MaxRuns
    /\ steps' = Append(steps, "reconcile")
    /\ LET r == Reconcile(InDimOf(input_networks).shapes, input_networks)
       IN  /\ max_conv_tensor_size' = r.max_conv_tensor_size
           /\ reshaped_tensors' = r.reshaped_tensors
           /\ error' = [class |-> r.err, arg |-> ""]
           /\ _in_dim' = IF r.err # "None" THEN InDimOf(input_networks)
                         ELSE [flat |-> TRUE, shapes |-> <<r.unified>>]
    /\ input_networks' = NetsAfterReconcile(input_networks)
    /\ in_dim' = InDimOf(input_networks')
    /\ UNCHANGED <<raw_config, num_classes, pc, units, network,
                   conv_flat_dim, network_tail, out_dim, attrs>>

SpecReconcile == InitReconcile /\ [][ReconcileRun]_vars

(***************************************************************************)
(* Properties.                                                             *)
(***************************************************************************)
Ran(step) == \E i \in 1..Len(steps) : steps[i] = step

FailedAt(step) == pc = "failed" /\ steps # << >> /\ steps[Len(steps)] = step

\* The multi-input branch ran to its end without raising.
Reconciled == Ran("reconcile") /\ ~FailedAt("reconcile")

\* The validation ran to its end without raising.
Validated == Ran("validate") /\ ~FailedAt("validate")

TargetSpatialShape == Tail(max_conv_tensor_size)

\* The upstream networks whose output is spatial
SpatialNets == {i \in 1..Len(input_networks) :
                   Len(input_networks[i].out_dim) > 1}

FlatNets == {i \in 1..Len(input_networks) :
                Len(input_networks[i].out_dim) = 1}

\* C1: once reconciliation has run, every reshaped tensor, cast or padded,
\* has the target spatial shape whatever its original shape and rank, the
\* concatenation is well formed, and the spatial part of the unified input
\* shape is the target spatial shape.
C1_ReshapedSpatialShape ==
    /\ Reconciled =>
          /\ Len(reshaped_tensors) = Len(input_networks)
          /\ \A i \in 1..Len(reshaped_tensors) :
                Tail(reshaped_tensors[i].shape) = TargetSpatialShape
          /\ _in_dim.flat
          /\ Tail(_in_dim.shapes[1]) = TargetSpatialShape
    /\ FailedAt("reconcile") => SpatialNets = {}

\* A spatial upstream of lower rank than the target was expanded and padded.
C1_Witness ==
    /\ Reconciled
    /\ \E i \in SpatialNets :
          /\ Len(input_networks[i].out_dim) < Len(max_conv_tensor_size)
          /\ \E k \in 1..Len(reshaped_tensors[i].pad) :
                reshaped_tensors[i].pad[k] > 0

\* Entry d of the spatial shape of upstream i, right-padded with zeros
PaddedEntry(i, d) ==
    IF d + 1 <= Len(input_networks[i].out_dim)
    THEN input_networks[i].out_dim[d + 1] ELSE 0

C3_CastLinear ==
    Reconciled =>
        \A i \in FlatNets :
            LET n == input_networks[i].out_dim[1]
                s == Prod(TargetSpatialShape)
                t == reshaped_tensors[i]
                c == t.shape[1]
                d == s * c - n
            IN  /\ t.shape = <<c>> \o TargetSpatialShape
                /\ c * s >= n /\ (c - 1) * s < n
                /\ Len(t.pad) = 2
                /\ t.pad[1] + t.pad[2] = d
                /\ t.pad[2] >= 0
                /\ t.pad[1] - t.pad[2] \in {0, 1}
                /\ Len(t.data) = s * c
                /\ \A k \in 1..Len(t.data) :
                      t.data[k] = IF k > t.pad[1] /\ k <= t.pad[1] + n
                                  THEN 1 ELSE 0

\* A flat upstream padded by an odd number of zeros into several channels.
C3_Witness ==
    /\ Reconciled
    /\ \E i \in FlatNets :
          /\ reshaped_tensors[i].shape[1] > 1
          /\ reshaped_tensors[i].pad[1] > reshaped_tensors[i].pad[2]

\* Upstream i, its rank expanded, has an axis longer than the target's
NegativeDeficit(i) ==
    LET t == IF Len(input_networks[i].out_dim) < Len(max_conv_tensor_size)
             THEN CastSpatialDimAs(input_networks[i].out_dim,
                                   max_conv_tensor_size)
             ELSE input_networks[i].out_dim
    IN  \E a \in 2..Len(t) : t[a] > max_conv_tensor_size[a]

\* C4: when a spatial upstream, its rank expanded with singleton axes after
\* the channel axis, has an axis longer than the target's, reconciliation
\* fails with an error and returns no cropped tensor.
C4_NegativeDeficitRejected ==
    (Ran("reconcile") /\ max_conv_tensor_size # << >>
        /\ \E i \in SpatialNets : NegativeDeficit(i))
    => FailedAt("reconcile")

\* C5: for every raw config that validation accepts, the kernel_size of
\* every unit is a tuple (an int as a one-element tuple, another sequence as
\* the tuple of its elements) and conv_dim is its length.
C5_KernelSizeTuple ==
    Validated =>
        /\ Len(units) = Len(raw_config.conv_units)
        /\ \A i \in 1..Len(units) :
              LET raw == raw_config.conv_units[i].kernel_size
              IN  /\ units[i].kernel_size.kind = "tuple"
                  /\ units[i].kernel_size.elems = raw.elems
                  /\ raw.kind = "int" => Len(units[i].kernel_size.elems) = 1
                  /\ units[i].conv_dim = Len(units[i].kernel_size.elems)
                  /\ units[i].conv_dim >= 1

\* An accepted config with an int kernel_size and a list kernel_size.
C5_Witness ==
    /\ Validated
    /\ \E i, j \in 1..Len(units) :
          /\ raw_config.conv_units[i].kernel_size.kind = "int"
          /\ raw_config.conv_units[j].kernel_size.kind = "list"
          /\ Len(raw_config.conv_units[j].kernel_size.elems) > 1

\* C6 as stated: validation of a raw config without the conv_units key
\* fails with ConfigError.
C6_MissingConvUnitsConfigError ==
    (Ran("validate") /\ ~raw_config.has_conv_units)
    => (FailedAt("validate") /\ error.class = "ConfigError")

\* C6, amended: validation of a raw config without the conv_units key fails
\* with KeyError, before any unit is cleaned and any later step runs.
C6_MissingConvUnitsKeyError ==
    (Ran("validate") /\ ~raw_config.has_conv_units)
    => /\ FailedAt("validate")
       /\ error = [class |-> "KeyError", arg |-> "conv_units"]
       /\ steps = <<"validate">>
       /\ units = << >>

C6_Witness ==
    FailedAt("validate") /\ ~raw_config.has_conv_units

\* The required arguments missing from raw unit i
Missing(i) ==
    {RequiredArgs[k] : k \in 1..Len(RequiredArgs)} \ raw_config.conv_units[i].keys

\* Raw unit i cannot be cleaned: a required argument is missing, or its
\* kernel_size is neither an int nor iterable.
Rejected(i) ==
    \/ Missing(i) # {}
    \/ raw_config.conv_units[i].kernel_size.kind = "other"

\* C7 as stated: a unit, at any position, that misses a required field makes
\* validation fail with ConfigError naming the missing field, kernel_size
\* for a unit that misses kernel_size.
C7_MissingFieldConfigError ==
    (Ran("validate") /\ raw_config.has_conv_units) =>
        \A i \in 1..Len(raw_config.conv_units) :
            Missing(i) # {} =>
                /\ FailedAt("validate")
                /\ error.class = "ConfigError"
                /\ error.arg \in Missing(i)
                /\ "kernel_size" \in Missing(i) => error.arg = "kernel_size"

\* C7, amended: a unit, at any position, that misses a required field makes
\* validation fail; when no earlier unit is rejected the error is a
\* ValueError naming the first field it misses in the order in_channels,
\* out_channels, kernel_size (kernel_size when that is all it misses).
C7_MissingFieldValueError ==
    (Ran("validate") /\ raw_config.has_conv_units) =>
        \A i \in 1..Len(raw_config.conv_units) :
            Missing(i) # {} =>
                /\ FailedAt("validate")
                /\ steps = <<"validate">>
                /\ (\A j \in 1..(i - 1) : ~Rejected(j)) =>
                      /\ error.class = "ValueError"
                      /\ error.arg \in Missing(i)
                      /\ \A k \in 1..Len(RequiredArgs) :
                            error.arg = RequiredArgs[k] =>
                                \A m \in 1..(k - 1) :
                                    RequiredArgs[m] \notin Missing(i)
                      /\ Len(units) = i - 1

\* The second unit misses kernel_size alone and the first is accepted.
C7_Witness ==
    /\ FailedAt("validate")
    /\ Len(raw_config.conv_units) = 2
    /\ ~Rejected(1)
    /\ Missing(2) = {"kernel_size"}
    /\ error.arg = "kernel_size"

\* C8: a config whose conv_units list is empty is rejected with ConfigError:
\* the construction yields no module, and fails with a ConfigError and no
\* other error.
C8_EmptyConvUnitsConfigError ==
    (raw_config.has_conv_units /\ raw_config.conv_units = << >>) =>
        /\ pc # "done"
        /\ pc = "failed" => error.class = "ConfigError"

StepOrder(step) ==
    CASE step = "validate" -> 1
      [] step = "create" -> 2
      [] step = "reconcile" -> 3
      [] step = "build" -> 4
      [] step = "probe" -> 5
      [] step = "head" -> 6
      [] OTHER -> 0

\* C9: in every construction the steps run in the order validation, shape
\* reconciliation (only if multi-input), pipeline build, flattened-size
\* probe, head attachment (only if num_classes is given), each at most once
\* and none before the one before it has completed; the in_features of the
\* head is the value the probe returned.
C9_ConstructionOrder ==
    /\ \A i, j \in 1..Len(steps) :
          i < j => (0 < StepOrder(steps[i]) /\ StepOrder(steps[i]) < StepOrder(steps[j]))
    /\ steps # << >> => steps[1] = "validate"
    /\ Ran("reconcile") => MultiInput(in_dim, input_networks)
    /\ Ran("build") =>
          /\ Validated
          /\ MultiInput(in_dim, input_networks) => Reconciled
    /\ Ran("probe") => (Ran("build") /\ ~FailedAt("build"))
    /\ Ran("head") =>
          /\ Ran("probe") /\ ~FailedAt("probe")
          /\ num_classes # 0
          /\ network_tail.in_features = conv_flat_dim
          /\ network_tail.in_features = GetFlattenedSize(network, _in_dim).size
          /\ network_tail.out_features = num_classes
    /\ pc = "done" =>
          /\ Ran("probe")
          /\ num_classes # 0 => Ran("head")
    /\ pc = "failed" <=> error.class # "None"

\* A construction that ran every step but the reconciliation, head included.
C9_Witness ==
    /\ pc = "done"
    /\ steps = <<"validate", "create", "build", "probe", "head">>
    /\ network_tail.in_features > 1

\* The stages a build registers on the module
NoStage ==
    /\ network = << >>
    /\ "network" \notin attrs
    /\ "conv_flat_dim" \notin attrs
    /\ "network_tail" \notin attrs

ValidatedUnits == ConvNetConfig(raw_config).units

Built == Ran("build") /\ ~FailedAt("build")

\* C12 as stated: once validation has produced the unit list, no field of
\* any unit changes but the in_channels of the first unit: activation,
\* kernel_size, out_channels, conv_dim and the in_channels of the later
\* units keep the value they had after validation.
C12_OnlyInChannelsWritten ==
    Validated =>
        /\ Len(units) = Len(ValidatedUnits)
        /\ \A i \in 1..Len(units) :
              /\ units[i].activation = ValidatedUnits[i].activation
              /\ units[i].kernel_size = ValidatedUnits[i].kernel_size
              /\ units[i].out_channels = ValidatedUnits[i].out_channels
              /\ units[i].conv_dim = ValidatedUnits[i].conv_dim
              /\ i > 1 => units[i].in_channels = ValidatedUnits[i].in_channels

\* C12, amended: once validation has produced the unit list, the only
\* writes to a unit are those of the pipeline build, which sets the
\* in_channels of the first unit and the activation of every unit (to the
\* shared activation, whatever the unit brought); kernel_size, out_channels,
\* conv_dim and the in_channels of the later units keep the value they had
\* after validation, and a build that fails writes nothing.
C12_BuildWritesInChannelsAndActivation ==
    Validated =>
        /\ Len(units) = Len(ValidatedUnits)
        /\ \A i \in 1..Len(units) :
              /\ units[i].kernel_size = ValidatedUnits[i].kernel_size
              /\ units[i].out_channels = ValidatedUnits[i].out_channels
              /\ units[i].conv_dim = ValidatedUnits[i].conv_dim
              /\ i > 1 => units[i].in_channels = ValidatedUnits[i].in_channels
              /\ IF Built
                 THEN /\ units[i].activation = Activation
                      /\ i = 1 => units[i].in_channels = _in_dim.shapes[1][1]
                 ELSE units[i] = ValidatedUnits[i]

\* A finished construction of two units: the in_channels of the first was
\* overwritten, and the second brought an activation of its own.
C12_Witness ==
    /\ pc = "done"
    /\ Len(units) = 2
    /\ units[1].in_channels # ValidatedUnits[1].in_channels
    /\ ValidatedUnits[2].activation = "Tanh"
    /\ units[2].in_channels = ValidatedUnits[2].in_channels

\* More than one upstream network, and an in_dim of more than one entry
SeveralSpatialInputs == Len(input_networks) > 1 /\ LenDim(in_dim) > 1

UpstreamChannels ==
    IF Ran("reconcile")
    THEN Sum([i \in 1..Len(reshaped_tensors) |-> reshaped_tensors[i].shape[1]])
    ELSE in_dim.shapes[1][1]

\* C14: for an in_dim given as one shape per input and a non-empty unit
\* list, the pipeline build succeeds and leaves the in_channels of the first
\* unit equal to the upstream channel count whatever the user supplied: the
\* sum of the channel counts of the reshaped tensors in the multi-input
\* case, the channel count of in_dim in the single-input case.
C14_FirstInChannelsIsUpstream ==
    (Ran("build") /\ units # << >> /\ ~in_dim.flat) =>
        /\ ~FailedAt("build")
        /\ units[1].in_channels = UpstreamChannels

=============================================================================
